---- MODULE Spec2Model ----
(***************************************************************************)
(* Daily planner: the Tracks todo fetch (planner/sources/tracks_source.py) *)
(* and the CalDAV event normalisation (planner/sources/caldav_source.py),  *)
(* both writing into one PlannerData aggregate (planner/sources/base.py),  *)
(* and the page layout that draws it (planner/pdf_generator.py).           *)
(*                                                                         *)
(* Civil dates are day numbers (0, 1, 2, ...); day 0 is a Monday.          *)
(* A timestamp is a wall clock reading in hours since day 0 00:00 of its   *)
(* own zone, together with that zone's UTC offset when it is aware.        *)
(* The configured zone is a fixed UTC offset: values that carry the same   *)
(* tzinfo are compared and shifted on their wall clock, as Python does, so *)
(* only conversions from another zone would notice a DST change.           *)
(***************************************************************************)
EXTENDS Integers, Sequences, FiniteSets, TLC

VARIABLES
    data,       \* PlannerData: target_date, events, todos
    tpc,        \* position of TracksSource.fetch
    contexts,   \* id -> name mapping returned by _fetch_contexts
    projects,   \* id -> name mapping returned by _fetch_projects
    todos,      \* the list built by the loop of _fetch_todos
    nrec,       \* number of <todo> elements the loop has consumed
    cpc,        \* position of CalDavSource._fetch_calendar_events
    occ,        \* the raw item of the search result normalised last
    nwalk,      \* number of items of the search result consumed
    instance_dt,\* instances[0] of the last recurrence check (NoInstant: none)
    warned,     \* the last recurrence check ended in its except branch
    parse_warnings, \* "Failed to parse event" warnings logged so far
    fpc,        \* position of CalDavSource.fetch
    config_calendars,   \* CalDavConfig.calendars: URLs and calendar names
    server,     \* calendar URL -> the result of its date_search
    calendars_to_check, \* the list fetch builds before it reads any calendar
    nfetched,   \* number of calendars fetch has read
    gens,       \* the PlannerPDFGenerator objects: hours and _calendar_color_map
    out,        \* per generator, what its last generate call drew
    last_call,  \* the last _get_calendar_color call: generator, name, result
    rpc,        \* position of main
    args,       \* the parsed command line of the run, but for --no-upload
    failed      \* the fetches whose failure main has caught and logged

vars == <<data, tpc, contexts, projects, todos, nrec,
          cpc, occ, nwalk, instance_dt, warned, parse_warnings,
          fpc, config_calendars, server, calendars_to_check, nfetched,
          gens, out, last_call, rpc, args, failed>>

tracksVars == <<tpc, contexts, projects, todos, nrec>>
calVars == <<cpc, occ, nwalk, instance_dt, warned, parse_warnings>>
fetchVars == <<fpc, config_calendars, server, calendars_to_check, nfetched>>
layoutVars == <<gens, out, last_call>>
runVars == <<rpc, args, failed>>

(***************************************************************************)
(* Bounds of the model.                                                    *)
(***************************************************************************)
MaxTodos == 3       \* <todo> elements in one todos.xml response
MaxDueDay == 1      \* due dates and Tracks target dates range over 0..MaxDueDay

(***************************************************************************)
(* Generic sequence helpers.                                               *)
(***************************************************************************)
RECURSIVE Reverse(_)
Reverse(s) ==
    IF s = <<>> THEN <<>> ELSE Append(Reverse(Tail(s)), Head(s))

RECURSIVE SelectSeqBy(_, _)
SelectSeqBy(s, keep) ==
    IF s = <<>> THEN <<>>
    ELSE IF Head(s) \in keep THEN <<Head(s)>> \o SelectSeqBy(Tail(s), keep)
         ELSE SelectSeqBy(Tail(s), keep)

(***************************************************************************)
(* PlannerData and TodoItem (base.py).                                     *)
(***************************************************************************)
NoDate == -1        \* due_date = None

PlannerData(target) == [target_date |-> target, events |-> <<>>, todos |-> <<>>]

\* ord is the position of the <todo> element in the response: it stands for
\* the identity of the description text.
TodoItem(ord, context, project, due) ==
    [description |-> ord, context |-> context, project |-> project, due_date |-> due]

(***************************************************************************)
(* Raw Tracks records: the text of the XML fields.                         *)
(***************************************************************************)
RawIds == {[kind |-> "empty", n |-> 0], [kind |-> "num", n |-> 1],
           [kind |-> "num", n |-> 2], [kind |-> "text", n |-> 0]}

RawDues ==
    {[kind |-> "empty", day |-> 0], [kind |-> "bad", day |-> 0]}
    \cup {[kind |-> k, day |-> d] : k \in {"date", "datetime"}, d \in 0..MaxDueDay}

RawTodos ==
    [description : {"", "text"}, context_id : RawIds, project_id : RawIds, due : RawDues]

\* The servers' name tables; a failed request gives the empty mapping.
ContextTable == [i \in {1} |-> "home"]
ProjectTable == [i \in {1} |-> "planner"]
EmptyTable == [i \in {} |-> ""]

\* dict.get(key, "")
Lookup(table, key) == IF key \in DOMAIN table THEN table[key] ELSE ""

\* int(text) raises ValueError on non-numeric text
IntRaises(id) == id.kind = "text"

\* `contexts.get(int(context_id), "") if context_id else ""`
ResolveName(table, id) == IF id.kind = "empty" THEN "" ELSE Lookup(table, id.n)

\* date.fromisoformat(due_str.split("T")[0]); ValueError leaves due_date None
ParseDue(due) ==
    IF due.kind \in {"date", "datetime"} THEN due.day ELSE NoDate

(***************************************************************************)
(* TodoFilter: the selection and the ordering of TracksSource.fetch.       *)
(***************************************************************************)
IsRelevantStrict(t, target) == t.due_date # NoDate /\ t.due_date < target

\* `t.due_date and t.due_date <= target_date`
IsRelevant(t, target) == t.due_date # NoDate /\ t.due_date <= target

RelevantTodos(ts, target) ==
    SelectSeqBy(ts, {t \in {ts[i] : i \in DOMAIN ts} : IsRelevant(t, target)})

\* Insert x into the ascending sequence s after every element whose key is
\* not greater (the stable insertion of list.sort).
RECURSIVE InsertAsc(_, _)
InsertAsc(s, x) ==
    IF s = <<>> THEN <<x>>
    ELSE IF Head(s).due_date <= x.due_date THEN <<Head(s)>> \o InsertAsc(Tail(s), x)
         ELSE <<x>> \o s

RECURSIVE SortAsc(_)
SortAsc(s) ==
    IF s = <<>> THEN <<>>
    ELSE InsertAsc(SortAsc(SubSeq(s, 1, Len(s) - 1)), s[Len(s)])

SortThenReverse(s) == Reverse(SortAsc(s))

\* list.sort(key=due_date, reverse=True): the list is reversed, sorted
\* stably in ascending order and reversed again.
SortByDueDesc(s) == Reverse(SortAsc(Reverse(s)))

(***************************************************************************)
(* TracksSource.fetch, one step per request and per <todo> element.        *)
(***************************************************************************)
\* _fetch_contexts: request failure -> {}, a non-numeric id raises.
FetchContexts ==
    /\ tpc = "contexts"
    /\ \/ /\ contexts' \in {EmptyTable, ContextTable}
          /\ tpc' = "projects"
       \/ /\ tpc' = "raised"
          /\ UNCHANGED contexts
    /\ UNCHANGED <<data, projects, todos, nrec, calVars, fetchVars, layoutVars, runVars>>

\* _fetch_projects
FetchProjects ==
    /\ tpc = "projects"
    /\ \/ /\ projects' \in {EmptyTable, ProjectTable}
          /\ tpc' = "todos"
       \/ /\ tpc' = "raised"
          /\ UNCHANGED projects
    /\ UNCHANGED <<data, contexts, todos, nrec, calVars, fetchVars, layoutVars, runVars>>

\* The body of the loop of _fetch_todos for the ord-th <todo> element:
\* the todos list and the position of fetch afterwards.
AfterTodo(raw, ord, list) ==
    IF raw.description = "" THEN [todos |-> list, pc |-> "todos"]
    ELSE IF IntRaises(raw.context_id) \/ IntRaises(raw.project_id)
         THEN [todos |-> list, pc |-> "raised"]
         ELSE [todos |-> Append(list,
                   TodoItem(ord, ResolveName(contexts, raw.context_id),
                            ResolveName(projects, raw.project_id),
                            ParseDue(raw.due))),
               pc |-> "todos"]

\* One iteration of the loop of _fetch_todos.
ParseTodo ==
    /\ tpc = "todos"
    /\ nrec < MaxTodos
    /\ \E raw \in RawTodos :
          LET r == AfterTodo(raw, nrec + 1, todos)
          IN  /\ todos' = r.todos
              /\ tpc' = r.pc
    /\ nrec' = nrec + 1
    /\ UNCHANGED <<data, contexts, projects, calVars, fetchVars, layoutVars, runVars>>

\* The filter, the sort and the extend of fetch (lines 41-53).
Extended(d, list) ==
    [d EXCEPT !.todos = @ \o SortByDueDesc(RelevantTodos(list, d.target_date))]

\* The response is exhausted (or the request failed and todos is []):
\* _fetch_todos returns and fetch filters, sorts and extends data.todos.
FinishTodos ==
    /\ tpc = "todos"
    /\ data' = Extended(data, todos)
    /\ tpc' = "done"
    /\ UNCHANGED <<contexts, projects, todos, nrec, calVars, fetchVars, layoutVars, runVars>>

(***************************************************************************)
(* Temporal values of the calendar (icalendar's .dt): a bare date, a naive *)
(* timestamp, an aware timestamp, or nothing. wall is in hours since day 0 *)
(* 00:00 on the value's own clock; off is the UTC offset of an aware one.  *)
(***************************************************************************)
TzOffset == 2       \* UTC offset of the configured zone (Europe/Helsinki)
NoTime == -1        \* start_time / end_time = None
NoInstant == -1000  \* no instance found

NoValue == [kind |-> "none", wall |-> 0, off |-> 0]
DateValue(d) == [kind |-> "date", wall |-> d * 24, off |-> 0]
Naive(w) == [kind |-> "naive", wall |-> w, off |-> 0]
Aware(w, o) == [kind |-> "aware", wall |-> w, off |-> o]

IsDatetime(v) == v.kind \in {"naive", "aware"}

\* datetime.astimezone(self.tz) of an aware value
AsTimezone(v) == Aware(v.wall - v.off + TzOffset, TzOffset)

\* datetime.replace(tzinfo=self.tz) of a naive value
ReplaceTz(v) == Aware(v.wall, TzOffset)

\* .date() and .time()
DateOf(v) == v.wall \div 24
TimeOf(v) == v.wall % 24

\* datetime.combine(d, time.min).replace(tzinfo=self.tz)
Midnight(d) == Aware(d * 24, TzOffset)

\* target_start and target_end (lines 132-133)
TargetStart(target) == Midnight(target)
TargetEnd(target) == Midnight(target + 1)

(***************************************************************************)
(* CalendarEvent (base.py). location and description are copied through    *)
(* unchanged and are left out.                                             *)
(***************************************************************************)
CalendarEvent(title, start_time, end_time, all_day, calendar_name) ==
    [title |-> title, start_time |-> start_time, end_time |-> end_time,
     all_day |-> all_day, calendar_name |-> calendar_name]

(***************************************************************************)
(* Non-recurring filter (lines 140-167).                                   *)
(***************************************************************************)
CheckDateUnconverted(dtstart) == DateOf(dtstart)

\* check_date: the civil date of the start in the configured zone
CheckDate(dtstart) ==
    IF IsDatetime(dtstart)
    THEN IF dtstart.kind = "aware" THEN DateOf(AsTimezone(dtstart))
         ELSE DateOf(ReplaceTz(dtstart))
    ELSE DateOf(dtstart)

(***************************************************************************)
(* Recurrence check (lines 169-230): dateutil's rrulestr and between.      *)
(* A rule is FREQ=DAILY or FREQ=WEEKLY with an optional COUNT (0: none);   *)
(* freq "BAD" is a rule text rrulestr rejects, "NONE" is no RRULE.         *)
(***************************************************************************)
Period(rule) == IF rule.freq = "DAILY" THEN 24 ELSE 7 * 24

\* start_dt_rr (lines 184-192)
RecurrenceStart(dtstart) ==
    IF IsDatetime(dtstart)
    THEN IF dtstart.kind = "naive" THEN ReplaceTz(dtstart) ELSE AsTimezone(dtstart)
    ELSE Midnight(DateOf(dtstart))

RECURSIVE SortedWalls(_)
SortedWalls(S) ==
    IF S = {} THEN <<>>
    ELSE LET m == CHOOSE x \in S : \A y \in S : x <= y
         IN  <<m>> \o SortedWalls(S \ {m})

\* rule.between(after, before, inc=True): the occurrences i with
\* after <= i <= before, in ascending order; all three values carry self.tz.
Between(rule, start, after, before) ==
    LET last == IF before.wall < start.wall THEN -1
                ELSE (before.wall - start.wall) \div Period(rule)
        ks == {k \in 0..last :
                 /\ rule.count = 0 \/ k < rule.count
                 /\ start.wall + k * Period(rule) >= after.wall
                 /\ start.wall + k * Period(rule) <= before.wall}
    IN  SortedWalls({start.wall + k * Period(rule) : k \in ks})

\* instances (line 199)
Instances(c, target) ==
    Between(c.rrule, RecurrenceStart(c.dtstart), TargetStart(target), TargetEnd(target))

LastInstance(instances) == instances[Len(instances)]

\* instance_dt = instances[0]
FirstInstance(instances) == instances[1]

\* `dtend_val - orig_start` raises TypeError unless dtend is an aware
\* timestamp: orig_start is always aware (line 213).
DurationRaises(c) ==
    IsDatetime(c.dtstart) /\ c.dtend.kind \in {"date", "naive"}

\* duration (line 214), in hours
Duration(c) ==
    IF c.dtend.kind = "none" THEN 0
    ELSE (c.dtend.wall - c.dtend.off)
         - (IF c.dtstart.kind = "aware" THEN c.dtstart.wall - c.dtstart.off
            ELSE c.dtstart.wall - TzOffset)

\* The recurring branch: what the try block leaves behind. keep is FALSE on
\* the `continue` of line 205; warned is TRUE when the except branch ran.
CheckRecurrence(c, target) ==
    LET unshifted == [keep |-> TRUE, warned |-> TRUE, instance |-> NoInstant,
                      dtstart |-> c.dtstart, dtend |-> c.dtend]
    IN  IF c.rrule.freq = "BAD" THEN unshifted
        ELSE LET instances == Instances(c, target)
             IN  IF instances = <<>>
                 THEN [keep |-> FALSE, warned |-> FALSE, instance |-> NoInstant,
                       dtstart |-> c.dtstart, dtend |-> c.dtend]
                 ELSE LET instance == FirstInstance(instances)
                      IN  IF ~IsDatetime(c.dtstart)
                          THEN [keep |-> TRUE, warned |-> FALSE, instance |-> instance,
                                dtstart |-> c.dtstart, dtend |-> c.dtend]
                          ELSE IF DurationRaises(c)
                               THEN [unshifted EXCEPT !.instance = instance]
                               ELSE [keep |-> TRUE, warned |-> FALSE,
                                     instance |-> instance,
                                     dtstart |-> Aware(instance, TzOffset),
                                     dtend |-> IF c.dtend.kind = "none" THEN NoValue
                                               ELSE Aware(instance + Duration(c), TzOffset)]

\* The time of day an Event stores for a (possibly rewritten) value
\* (lines 245-253).
LocalTime(v) ==
    IF ~IsDatetime(v) THEN NoTime
    ELSE IF v.kind = "aware" THEN TimeOf(AsTimezone(v)) ELSE TimeOf(v)

MakeEventByTzinfo(title, dtstart, dtend, cal_name) ==
    CalendarEvent(title, LocalTime(dtstart), LocalTime(dtend),
                  dtstart.kind # "aware", cal_name)

\* The Event of lines 234-258.
MakeEvent(title, dtstart, dtend, cal_name) ==
    IF dtstart.kind = "date"
    THEN CalendarEvent(title, NoTime, NoTime, TRUE, cal_name)
    ELSE CalendarEvent(title, LocalTime(dtstart), LocalTime(dtend), FALSE, cal_name)

NormalizedSkipOnFailure(c, title, cal_name, target) ==
    IF c.name # "VEVENT" \/ c.dtstart.kind = "none"
    THEN [events |-> <<>>, instance |-> NoInstant, warned |-> FALSE]
    ELSE IF c.rrule.freq = "NONE"
         THEN [events |-> IF CheckDate(c.dtstart) # target THEN <<>>
                          ELSE <<MakeEvent(title, c.dtstart, c.dtend, cal_name)>>,
               instance |-> NoInstant, warned |-> FALSE]
         ELSE LET r == CheckRecurrence(c, target)
              IN  [events |-> IF r.keep /\ ~r.warned
                              THEN <<MakeEvent(title, r.dtstart, r.dtend, cal_name)>>
                              ELSE <<>>,
                   instance |-> r.instance, warned |-> r.warned]

\* The body of the loop of _parse_event for one component: the Events it
\* appends (none or one), the instance it used and whether it warned.
Normalized(c, title, cal_name, target) ==
    IF c.name # "VEVENT" \/ c.dtstart.kind = "none"
    THEN [events |-> <<>>, instance |-> NoInstant, warned |-> FALSE]
    ELSE IF c.rrule.freq = "NONE"
         THEN [events |-> IF CheckDate(c.dtstart) # target THEN <<>>
                          ELSE <<MakeEvent(title, c.dtstart, c.dtend, cal_name)>>,
               instance |-> NoInstant, warned |-> FALSE]
         ELSE LET r == CheckRecurrence(c, target)
              IN  [events |-> IF r.keep
                              THEN <<MakeEvent(title, r.dtstart, r.dtend, cal_name)>>
                              ELSE <<>>,
                   instance |-> r.instance, warned |-> r.warned]

(***************************************************************************)
(* Raw items of a search result. An item is a component met by the walk of *)
(* _parse_event (consecutive components may belong to one calendar object) *)
(* or a calendar object whose icalendar_instance cannot be parsed. The     *)
(* SUMMARY of a component is its position in the result.                   *)
(***************************************************************************)
NoRule == [freq |-> "NONE", count |-> 0]

Rules(counts) ==
    {NoRule, [freq |-> "BAD", count |-> 0]}
    \cup {[freq |-> f, count |-> n] : f \in {"DAILY", "WEEKLY"}, n \in counts}

Starts(days, hours, offsets) ==
    {NoValue}
    \cup {DateValue(d) : d \in days}
    \cup {Naive(d * 24 + h) : d \in days, h \in hours}
    \cup {Aware(d * 24 + h, o) : d \in days, h \in hours, o \in offsets}

Ends(dtstart, durations) ==
    IF dtstart.kind = "none" THEN {NoValue}
    ELSE {NoValue, DateValue(DateOf(dtstart) + 1)}
         \cup {Naive(dtstart.wall + u) : u \in durations}
         \cup {Aware(dtstart.wall + u, dtstart.off) : u \in durations}

Unparsable == [name |-> "unparsable", dtstart |-> NoValue, dtend |-> NoValue,
               rrule |-> NoRule]
OtherComponent == [name |-> "VTIMEZONE", dtstart |-> NoValue, dtend |-> NoValue,
                   rrule |-> NoRule]

Components(starts, durations, rules) ==
    UNION {[name : {"VEVENT"}, dtstart : {s}, dtend : Ends(s, durations), rrule : rules]
           : s \in starts}

MaxDay == 16        \* anchors and target dates of one normalisation: 0..MaxDay
MaxFetchDay == 1    \* anchors and target dates of a whole fetch: 0..MaxFetchDay
MaxWalk == 2        \* items in one search result
MaxCalendars == 2   \* entries of CalDavConfig.calendars
MaxNames == 11      \* distinct calendar names of a sequence of colour requests
MaxAllDay == 27     \* all-day events of one day
MaxLayoutTodos == 22    \* todos of one day
MaxPasses == 2      \* generate calls on one generator
MaxRunTodos == 1    \* <todo> elements of the Tracks response of a run

\* The inputs of one normalisation.
Occurrences ==
    Components(Starts(0..MaxDay, {0, 9, 23}, {0, 5}), {1, 25}, Rules({0, 2}))

\* The inputs of a whole fetch.
ResultItems ==
    {Unparsable, OtherComponent}
    \cup Components(Starts(0..MaxFetchDay, {23}, {0}), {1}, Rules({0}))

CalName == "Work"

(***************************************************************************)
(* CalDavSource._fetch_calendar_events.                                    *)
(***************************************************************************)
AfterItemUncaught(item, n, evs, target) ==
    IF item.name = "unparsable"
    THEN [events |-> evs, pc |-> "raised", instance |-> NoInstant, warned |-> FALSE,
          logged |-> 0]
    ELSE LET r == Normalized(item, n, CalName, target)
         IN  [events |-> evs \o r.events, pc |-> "results",
              instance |-> r.instance, warned |-> r.warned, logged |-> 0]

\* One iteration of the loop of lines 104-108 on the n-th item: an exception
\* of _parse_event is caught and logged, the loop goes on.
AfterItem(item, n, evs, target) ==
    IF item.name = "unparsable"
    THEN [events |-> evs, pc |-> "results", instance |-> NoInstant, warned |-> FALSE,
          logged |-> 1]
    ELSE LET r == Normalized(item, n, CalName, target)
         IN  [events |-> evs \o r.events, pc |-> "results",
              instance |-> r.instance, warned |-> r.warned, logged |-> 0]

ParseItem(items, max) ==
    /\ cpc = "results"
    /\ nwalk < max
    /\ \E item \in items :
          LET r == AfterItem(item, nwalk + 1, data.events, data.target_date)
          IN  /\ occ' = item
              /\ data' = [data EXCEPT !.events = r.events]
              /\ cpc' = r.pc
              /\ instance_dt' = r.instance
              /\ warned' = r.warned
              /\ parse_warnings' = parse_warnings + r.logged
    /\ nwalk' = nwalk + 1
    /\ UNCHANGED <<tracksVars, fetchVars, layoutVars, runVars>>

\* date_search succeeds (with expand=True, or else with expand=False).
SearchOk ==
    /\ cpc = "search"
    /\ cpc' = "results"
    /\ UNCHANGED <<data, occ, nwalk, instance_dt, warned, parse_warnings, tracksVars, fetchVars, layoutVars, runVars>>

\* Both date_search calls fail: the error is logged and the method returns.
SearchFailed ==
    /\ cpc = "search"
    /\ cpc' = "done"
    /\ UNCHANGED <<data, occ, nwalk, instance_dt, warned, parse_warnings, tracksVars, fetchVars, layoutVars, runVars>>

ParseResult == ParseItem(ResultItems, MaxWalk)

\* The result is exhausted.
FinishResults ==
    /\ cpc = "results"
    /\ cpc' = "done"
    /\ UNCHANGED <<data, occ, nwalk, instance_dt, warned, parse_warnings, tracksVars, fetchVars, layoutVars, runVars>>

\* _parse_event on one occurrence.
ParseOccurrence == ParseItem(Occurrences, 1)

(***************************************************************************)
(* CalDavSource.fetch: which calendars are read.  A calendar object is its *)
(* URL and its name attribute; a calendar made from a configured URL has   *)
(* no name (""), a discovered one carries its display name.  The SUMMARY   *)
(* of an entry stands for its identity: the calendar's URL and the         *)
(* position of the entry in that calendar's search result.                 *)
(***************************************************************************)
WorkUrl == "http://dav/work"
HomeUrl == "http://dav/home"

\* principal.calendars(): the calendars of the server, in its order.
Discovered == <<[url |-> WorkUrl, name |-> "Work"], [url |-> HomeUrl, name |-> "Home"]>>

\* c.startswith("http") on the entries of config.calendars.
StartsWithHttp(c) == c \in {WorkUrl, HomeUrl}

ConfigEntries == {WorkUrl, HomeUrl, "Work", "Home", "Other"}

\* What a calendar can hold on the searched day.
CalendarContents ==
    {<<>>}
    \cup {<<c>> : c \in {x \in Components(Starts({0}, {9}, {0}), {1}, {NoRule}) :
                            /\ x.dtstart.kind \in {"date", "aware"}
                            /\ x.dtend.kind = x.dtstart.kind}}

explicit_urls(cals) == SelectSeq(cals, LAMBDA c : StartsWithHttp(c))
filter_names(cals) == SelectSeq(cals, LAMBDA c : ~StartsWithHttp(c))

\* client.calendar(url=url), lines 40-44.
ExplicitCalendars(cals) ==
    [i \in DOMAIN explicit_urls(cals) |-> [url |-> explicit_urls(cals)[i], name |-> ""]]

should_discover(cals) == (cals = <<>>) \/ (Len(filter_names(cals)) > 0)

\* The loop of lines 57-66 over the discovered calendars.
PassesFilter(cal, cals) ==
    LET cal_name == IF cal.name # "" THEN cal.name ELSE "Unknown"
    IN  ~(filter_names(cals) # <<>>
          /\ \A i \in DOMAIN filter_names(cals) : filter_names(cals)[i] # cal_name)

DiscoveredCalendars(cals) == SelectSeq(Discovered, LAMBDA cal : PassesFilter(cal, cals))

\* cal.name or str(cal.url), line 78.
NameOf(cal) == IF cal.name # "" THEN cal.name ELSE cal.url

\* Lines 33-71: the calendars to check, or the early return without any.
CollectCalendars ==
    /\ fpc = "collect"
    /\ \E discovery_ok \in BOOLEAN :
          calendars_to_check' =
              ExplicitCalendars(config_calendars)
              \o (IF should_discover(config_calendars) /\ discovery_ok
                  THEN DiscoveredCalendars(config_calendars) ELSE <<>>)
    /\ fpc' = IF calendars_to_check' = <<>> THEN "done" ELSE "fetch"
    /\ UNCHANGED <<data, config_calendars, server, nfetched, tracksVars, calVars, layoutVars, runVars>>

\* The loop of lines 104-108 over the whole result of one calendar.
RECURSIVE ParsedEvents(_, _, _, _, _)
ParsedEvents(items, n, cal, target, evs) ==
    IF n > Len(items) THEN evs
    ELSE IF items[n].name = "unparsable"
         THEN ParsedEvents(items, n + 1, cal, target, evs)
         ELSE ParsedEvents(items, n + 1, cal, target,
                  evs \o Normalized(items[n], <<cal.url, n>>, NameOf(cal), target).events)

\* One iteration of the loop of lines 75-82: _fetch_calendar_events on the
\* next calendar, whose search succeeds or fails twice (lines 91-102).
FetchCalendar ==
    /\ fpc = "fetch"
    /\ nfetched < Len(calendars_to_check)
    /\ LET cal == calendars_to_check[nfetched + 1]
       IN  \E search_ok \in BOOLEAN :
              data' = IF search_ok
                      THEN [data EXCEPT !.events =
                               ParsedEvents(server[cal.url], 1, cal, data.target_date, @)]
                      ELSE data
    /\ nfetched' = nfetched + 1
    /\ UNCHANGED <<fpc, config_calendars, server, calendars_to_check,
                   tracksVars, calVars, layoutVars, runVars>>

\* Every calendar was read: fetch returns.
FinishFetch ==
    /\ fpc = "fetch"
    /\ nfetched = Len(calendars_to_check)
    /\ fpc' = "done"
    /\ UNCHANGED <<data, config_calendars, server, calendars_to_check, nfetched,
                   tracksVars, calVars, layoutVars, runVars>>

(***************************************************************************)
(* PlannerPDFGenerator (planner/pdf_generator.py): the colour of a         *)
(* calendar.  A colour pair is (background, border).                       *)
(***************************************************************************)
CALENDAR_COLORS ==
    << <<"#e8f0fe", "#4285f4">>, <<"#e6f4ea", "#34a853">>, <<"#fef7e0", "#fbbc04">>,
       <<"#fce8e6", "#ea4335">>, <<"#f3e8fd", "#a142f4">> >>

EmptyColorMap == [n \in {} |-> 0]

\* __init__: the hours and an empty _calendar_color_map.
PlannerPDFGenerator(day_start_hour, day_end_hour) ==
    [day_start_hour |-> day_start_hour, day_end_hour |-> day_end_hour,
     calendar_color_map |-> EmptyColorMap]

NextIndexSkipping(map) == (Cardinality(DOMAIN map) + 1) % Len(CALENDAR_COLORS)

\* idx = len(self._calendar_color_map) % len(CALENDAR_COLORS)
NextIndex(map) == Cardinality(DOMAIN map) % Len(CALENDAR_COLORS)

ColorMapReassigned(map, calendar_name) ==
    [n \in DOMAIN map \cup {calendar_name} |->
        IF n = calendar_name THEN NextIndex(map) ELSE map[n]]

\* _calendar_color_map after _get_calendar_color(calendar_name).
ColorMapAfter(map, calendar_name) ==
    IF calendar_name \in DOMAIN map THEN map
    ELSE [n \in DOMAIN map \cup {calendar_name} |->
             IF n = calendar_name THEN NextIndex(map) ELSE map[n]]

\* What _get_calendar_color(calendar_name) returns.
ColorsReturned(map, calendar_name) ==
    CALENDAR_COLORS[ColorMapAfter(map, calendar_name)[calendar_name] + 1]

NoCall == [gen |-> 0, calendar_name |-> 0, site |-> "none", fresh |-> FALSE,
           colors |-> <<"", "">>]

\* The calendar names a call can be given: names are numbered in the order
\* of their first request, so the next new name is the number of names
\* mapped so far plus one.
ColorNames(map) ==
    1..(IF Cardinality(DOMAIN map) < MaxNames
        THEN Cardinality(DOMAIN map) + 1 ELSE MaxNames)

\* One call of _get_calendar_color, from _draw_all_day_events (line 257) or
\* from _draw_timed_event (line 303).
GetCalendarColor ==
    /\ \E g \in DOMAIN gens, site \in {"all_day", "timed"} :
       \E calendar_name \in ColorNames(gens[g].calendar_color_map) :
          /\ gens' = [gens EXCEPT ![g].calendar_color_map = ColorMapAfter(@, calendar_name)]
          /\ last_call' =
                [gen |-> g, calendar_name |-> calendar_name, site |-> site,
                 fresh |-> calendar_name \notin DOMAIN gens[g].calendar_color_map,
                 colors |-> ColorsReturned(gens[g].calendar_color_map, calendar_name)]
    /\ UNCHANGED <<data, out, tracksVars, calVars, fetchVars, runVars>>

(***************************************************************************)
(* PlannerPDFGenerator: the page.  Lengths are in tenths of a millimetre   *)
(* (reportlab's mm is 10 units here), and every vertical coordinate of a   *)
(* pass is kept multiplied by the scale K of its generator, the absolute   *)
(* value of the number of hour rows, so that the height of an hour row,    *)
(* available_height / num_hours, is computed without rounding.  Horizontal *)
(* coordinates and fonts are fixed per kind of primitive and are left out; *)
(* times of day are whole hours; a title is the position of the event in   *)
(* PlannerData.events and a description the position of the todo.          *)
(***************************************************************************)
mm == 10

PAGE_HEIGHT == 297 * mm
MARGIN_TOP == 15 * mm
MARGIN_BOTTOM == 12 * mm
HEADER_HEIGHT == 12 * mm
BILLABLE_HEIGHT == 12 * mm
REFLECTION_HEIGHT == 42 * mm
FOOTER_HEIGHT == 5 * mm

COLOR_TODO_PROJECT == "#aaaaaa"
COLOR_OVERDUE == "#cc0000"

Abs(x) == IF x < 0 THEN -x ELSE x
Min(a, b) == IF a < b THEN a ELSE b
Max(a, b) == IF a < b THEN b ELSE a

num_hours(gen) == gen.day_end_hour - gen.day_start_hour
Scale(gen) == IF num_hours(gen) = 0 THEN 1 ELSE Abs(num_hours(gen))

\* The canvas calls: rect(x, y, w, h), line(x1, y, x2, y), drawString(x, y, s).
Rect(part, y, h, ref, color) ==
    [op |-> "rect", part |-> part, y |-> y, h |-> h, ref |-> ref, text |-> "",
     color |-> color]
Line(part, y, h, ref) ==
    [op |-> "line", part |-> part, y |-> y, h |-> h, ref |-> ref, text |-> "",
     color |-> ""]
String(part, y, ref, text, color) ==
    [op |-> "string", part |-> part, y |-> y, h |-> 0, ref |-> ref, text |-> text,
     color |-> color]

\* strftime("%H:%M") and f"{hour:02d}:00" on a whole hour.
HourText(hour) == (IF hour < 10 THEN "0" ELSE "") \o ToString(hour) \o ":00"

\* _draw_header: the background and the date; returns header_y.
header_y(K) == (PAGE_HEIGHT - MARGIN_TOP - HEADER_HEIGHT) * K
DrawHeader(target_date, K) ==
    << Rect("header", header_y(K), HEADER_HEIGHT * K, 0, "#1a1a2e"),
       String("header_date", header_y(K), target_date, "%A, %-d %B %Y", "white") >>

\* _draw_readiness: returns the y of its writing line.
readiness_bottom(header_bottom, K) ==
    header_bottom - 7 * mm * K - 6 * mm * K - 8 * mm * K - 4 * mm * K
DrawReadiness(header_bottom, K) ==
    LET section_y == header_bottom - 7 * mm * K
        y == section_y - 6 * mm * K
    IN  << String("readiness_title", section_y, 0, "Readiness", "#1a1a2e"),
           String("readiness_label", y + 1 * mm * K, 0, "Readiness:", "#555555"),
           Rect("readiness_box", y - 1 * mm * K, 5 * mm * K, 0, ""),
           String("sleep_label", y + 1 * mm * K, 0, "Sleep:", "#555555"),
           Rect("sleep_box", y - 1 * mm * K, 5 * mm * K, 0, ""),
           String("feeling_label", y - 8 * mm * K, 0, "How are you feeling? Why?", "#555555"),
           Line("feeling_line", readiness_bottom(header_bottom, K), 0, 0) >>

\* _draw_all_day_events on events[n..]: the primitives, the new y and the
\* colour map after the banners.
RECURSIVE DrawAllDayEventsTight(_, _, _, _, _)
DrawAllDayEventsTight(events, n, y, map, K) ==
    IF n > Len(events) THEN [primitives |-> <<>>, y |-> y, map |-> map]
    ELSE LET event == events[n]
             pair == ColorsReturned(map, event.calendar_name)
             banner_height == 5 * mm * K
             rest == DrawAllDayEventsTight(events, n + 1, y - banner_height,
                                           ColorMapAfter(map, event.calendar_name), K)
         IN  [rest EXCEPT !.primitives =
                 << Rect("banner", y - banner_height, banner_height, event.title, pair[1]),
                    Rect("banner_bar", y - banner_height, banner_height, event.title, pair[2]),
                    String("banner_label", y - banner_height + (15 * mm * K) \div 10,
                           event.title, "", "#1a1a2e") >> \o @]
RECURSIVE DrawAllDayEvents(_, _, _, _, _)
DrawAllDayEvents(events, n, y, map, K) ==
    IF n > Len(events) THEN [primitives |-> <<>>, y |-> y, map |-> map]
    ELSE LET event == events[n]
             pair == ColorsReturned(map, event.calendar_name)
             banner_height == 5 * mm * K
             rest == DrawAllDayEvents(events, n + 1, y - (banner_height + 1 * mm * K),
                                      ColorMapAfter(map, event.calendar_name), K)
         IN  [rest EXCEPT !.primitives =
                 << Rect("banner", y - banner_height, banner_height, event.title, pair[1]),
                    Rect("banner_bar", y - banner_height, banner_height, event.title, pair[2]),
                    String("banner_label", y - banner_height + (15 * mm * K) \div 10,
                           event.title, "", "#1a1a2e") >> \o @]

\* The clamped hours of _draw_timed_event (lines 285-294).
ClampedStartUnclipped(event, gen) == event.start_time
ClampedStart(event, gen) == Max(event.start_time, gen.day_start_hour)
UnclampedEnd(event) ==
    IF event.end_time # NoTime THEN event.end_time ELSE event.start_time + 1
ClampedEndUnclipped(event, gen) == UnclampedEnd(event)
ClampedEnd(event, gen) == Min(UnclampedEnd(event), gen.day_end_hour)

\* _draw_timed_event: the primitives and the colour map after the event.
DrawTimedEvent(event, gen, map, schedule_top_y, slot_height, K) ==
    IF event.start_time = NoTime \/ ClampedStart(event, gen) >= ClampedEnd(event, gen)
    THEN [primitives |-> <<>>, map |-> map]
    ELSE LET top == schedule_top_y
                    - (ClampedStart(event, gen) - gen.day_start_hour) * slot_height
             bottom == schedule_top_y
                       - (ClampedEnd(event, gen) - gen.day_start_hour) * slot_height
             pair == ColorsReturned(map, event.calendar_name)
             text_y == top - 3 * mm * K
             time_str == HourText(event.start_time)
                         \o (IF event.end_time # NoTime
                             THEN "-" \o HourText(event.end_time) ELSE "")
         IN  [primitives |->
                 << Rect("event", bottom, top - bottom, event.title, pair[1]),
                    Rect("event_bar", bottom, top - bottom, event.title, pair[2]),
                    String("event_time", text_y, event.title, time_str, "#1a1a2e"),
                    String("event_title", text_y - (32 * mm * K) \div 10, event.title, "",
                           "#1a1a2e") >>,
              map |-> ColorMapAfter(map, event.calendar_name)]

RECURSIVE DrawTimedEvents(_, _, _, _, _, _, _)
DrawTimedEvents(events, n, gen, map, schedule_top_y, slot_height, K) ==
    IF n > Len(events) THEN [primitives |-> <<>>, map |-> map]
    ELSE LET one == DrawTimedEvent(events[n], gen, map, schedule_top_y, slot_height, K)
             rest == DrawTimedEvents(events, n + 1, gen, one.map, schedule_top_y,
                                     slot_height, K)
         IN  [rest EXCEPT !.primitives = one.primitives \o @]

\* The hour labels and hour lines of _draw_schedule (lines 236-250).
HourRows(gen, y, slot_height, K) ==
    IF num_hours(gen) <= 0 THEN <<>>
    ELSE [j \in 1..(2 * num_hours(gen)) |->
             LET hour_idx == (j - 1) \div 2
                 hour == gen.day_start_hour + hour_idx
                 slot_y == y - hour_idx * slot_height
             IN  IF j % 2 = 1
                 THEN String("hour_label", slot_y - 3 * mm * K, hour, HourText(hour),
                             "#555555")
                 ELSE Line("hour_line", slot_y, 0, hour)]

\* min(available_height / num_hours, 12 * mm) for num_hours # 0, times K;
\* available_height is a multiple of K.
SlotHeightUncapped(available_height, n, K) ==
    IF n > 0 THEN available_height \div K ELSE -(available_height \div K)
SlotHeight(available_height, n, K) ==
    IF n > 0 THEN Min(available_height \div K, 12 * mm * K)
    ELSE Min(-(available_height \div K), 12 * mm * K)

\* _draw_schedule: the division raises ZeroDivisionError when num_hours is
\* 0, after the title and the banners were drawn.
DrawSchedule(gen, d, top_y, bottom_limit, K) ==
    LET all_day_events == SelectSeq(d.events, LAMBDA e : e.all_day)
        timed_events == SelectSeq(d.events, LAMBDA e : ~e.all_day)
        title == <<String("schedule_title", top_y, 0, "Schedule", "#1a1a2e")>>
        banners == IF all_day_events # <<>>
                   THEN DrawAllDayEvents(all_day_events, 1, top_y - 5 * mm * K,
                                         gen.calendar_color_map, K)
                   ELSE [primitives |-> <<>>, y |-> top_y - 5 * mm * K,
                         map |-> gen.calendar_color_map]
        y == IF all_day_events # <<>> THEN banners.y - 3 * mm * K ELSE banners.y
        available_height == y - bottom_limit
    IN  IF num_hours(gen) = 0
        THEN [raised |-> TRUE, primitives |-> title \o banners.primitives,
              map |-> banners.map, y |-> y, slot_height |-> 0]
        ELSE LET slot_height == SlotHeight(available_height, num_hours(gen), K)
                 timed == DrawTimedEvents(timed_events, 1, gen, banners.map, y,
                                          slot_height, K)
             IN  [raised |-> FALSE,
                  primitives |-> title \o banners.primitives
                                 \o HourRows(gen, y, slot_height, K) \o timed.primitives,
                  map |-> timed.map, y |-> y, slot_height |-> slot_height]

\* ctx = todo.context or "No Context"
ContextOf(todo) == IF todo.context # "" THEN todo.context ELSE "No Context"

\* sorted(contexts.items()) orders the groups by name, by code point: the
\* names a todo of the model can have, in that order.
SortedContextNames == <<"No Context", "Work", "home">>

GroupNames(list) ==
    SelectSeq(SortedContextNames,
              LAMBDA c : \E i \in DOMAIN list : ContextOf(list[i]) = c)

GroupOf(list, ctx_name) == SelectSeq(list, LAMBDA t : ContextOf(t) = ctx_name)

\* The detail line of a todo: "> project", "! date" or "Due: Today", joined
\* (">" stands for the triangle, "!" for the warning sign, the day number for
\* strftime('%d.%m.%Y')).
DetailPartsInclusive(todo, target_date) ==
    (IF todo.project # "" THEN <<"> " \o todo.project>> ELSE <<>>)
    \o (IF todo.due_date # NoDate
        THEN (IF todo.due_date <= target_date
              THEN <<"! " \o ToString(todo.due_date)>> ELSE <<"Due: Today">>)
        ELSE <<>>)
DetailParts(todo, target_date) ==
    (IF todo.project # "" THEN <<"> " \o todo.project>> ELSE <<>>)
    \o (IF todo.due_date # NoDate
        THEN (IF todo.due_date < target_date
              THEN <<"! " \o ToString(todo.due_date)>> ELSE <<"Due: Today">>)
        ELSE <<>>)

Joined(parts) ==
    IF Len(parts) = 2 THEN parts[1] \o "  .  " \o parts[2] ELSE parts[1]

RoomAlways(y, bottom_limit, K) == TRUE

\* The guard of lines 367 and 377: the loop goes on unless y is less than
\* 5 mm above bottom_limit.
Room(y, bottom_limit, K) == ~(y < bottom_limit + 5 * mm * K)

\* The loop over the todos of one group (lines 376-413), from the n-th on.
RECURSIVE DrawTodoRows(_, _, _, _, _, _)
DrawTodoRows(list, n, y, target_date, bottom_limit, K) ==
    IF n > Len(list) \/ ~Room(y, bottom_limit, K) THEN [primitives |-> <<>>, y |-> y]
    ELSE LET todo == list[n]
             checkbox_size == (28 * mm * K) \div 10
             parts == DetailParts(todo, target_date)
             overdue == todo.due_date # NoDate /\ todo.due_date < target_date
             detail_y == y - (32 * mm * K) \div 10
             next_y == (IF parts # <<>> THEN detail_y ELSE y) - (45 * mm * K) \div 10
             rest == DrawTodoRows(list, n + 1, next_y, target_date, bottom_limit, K)
         IN  [rest EXCEPT !.primitives =
                 << Rect("todo_checkbox", y - checkbox_size + (8 * mm * K) \div 10,
                         checkbox_size, todo.description, "#666666"),
                    String("todo_description", y, todo.description, "", "#1a1a2e") >>
                 \o (IF parts # <<>>
                     THEN <<String("todo_detail", detail_y, todo.description, Joined(parts),
                                   IF overdue THEN COLOR_OVERDUE ELSE COLOR_TODO_PROJECT)>>
                     ELSE <<>>)
                 \o @]

\* The loop over the groups (lines 366-415), from the n-th on.
RECURSIVE DrawGroups(_, _, _, _, _, _, _)
DrawGroups(names, n, list, y, target_date, bottom_limit, K) ==
    IF n > Len(names) \/ ~Room(y, bottom_limit, K) THEN <<>>
    ELSE LET rows == DrawTodoRows(GroupOf(list, names[n]), 1, y - (45 * mm * K) \div 10,
                                  target_date, bottom_limit, K)
         IN  <<String("context_header", y, 0, "@ " \o names[n], "#888888")>>
             \o rows.primitives
             \o DrawGroups(names, n + 1, list, rows.y - 2 * mm * K, target_date,
                           bottom_limit, K)

\* _draw_todos.
DrawTodos(d, top_y, bottom_limit, K) ==
    << String("tasks_title", top_y, 0, "Tasks", "#1a1a2e"),
       Line("column_divider", bottom_limit + 6 * mm * K,
            (top_y + 3 * mm * K) - (bottom_limit + 6 * mm * K), 0) >>
    \o (IF d.todos = <<>>
        THEN <<String("no_tasks", top_y - 6 * mm * K, 0, "No tasks due", "#888888")>>
        ELSE DrawGroups(GroupNames(d.todos), 1, d.todos, top_y - 6 * mm * K,
                        d.target_date, bottom_limit, K))

\* _draw_billable_hours.
DrawBillableHours(top_y, K) ==
    << Line("billable_divider", top_y + 6 * mm * K, 0, 0),
       String("billable_title", top_y, 0, "Billable Hours", "#1a1a2e"),
       Line("billable_line", top_y - 5 * mm * K, 0, 0),
       Line("billable_line", top_y - 5 * mm * K - 5 * mm * K, 0, 1) >>

\* _draw_reflection.
DrawReflection(top_y, K) ==
    LET y1 == top_y - 6 * mm * K
        y2 == y1 - 7 * mm * K
        y3 == y2 - 7 * mm * K
        y4 == y3 - 7 * mm * K
        y5 == y4 - 4 * mm * K
        remaining == y5 - (MARGIN_BOTTOM + FOOTER_HEIGHT) * K
        num_lines == Max(remaining \div ((45 * mm * K) \div 10), 1)
    IN  << Line("reflection_divider", top_y + 6 * mm * K, 0, 0),
           String("reflection_title", top_y, 0, "Reflection", "#1a1a2e"),
           String("best_label", y1, 0, "What was best in the day?", "#555555"),
           Line("best_line", y1 - (5 * mm * K) \div 10, 0, 0),
           String("rating_label", y2, 0, "Day rating:", "#555555") >>
        \o [i \in 1..5 |-> String("star", y2 - 1 * mm * K, i - 1, "*", "#e0e0e0")]
        \o << String("learn_label", y3, 0, "What did I learn today?", "#555555"),
              Line("learn_line", y3 - (5 * mm * K) \div 10, 0, 0),
              String("notes_label", y4, 0, "Notes:", "#555555") >>
        \o [i \in 1..num_lines |->
               Line("notes_line", y5 - (i - 1) * ((45 * mm * K) \div 10), 0, i - 1)]

\* _draw_footer: the timestamp is datetime.now() at the time of the call.
DrawFooter(now, K) ==
    << String("footer_timestamp", (MARGIN_BOTTOM - 3 * mm) * K, now,
              "Generated: %Y-%m-%d %H:%M", "#888888"),
       String("footer_name", (MARGIN_BOTTOM - 3 * mm) * K, 0, "Daily Planner", "#888888") >>

schedule_top(K) == readiness_bottom(header_y(K), K) - 5 * mm * K
reflection_top(K) == (MARGIN_BOTTOM + FOOTER_HEIGHT + REFLECTION_HEIGHT) * K
billable_top(K) == reflection_top(K) + BILLABLE_HEIGHT * K + 4 * mm * K

\* generate: what is drawn, the colour map afterwards and whether the call
\* returned ("ok") or raised out of _draw_schedule ("raised").
Generated(gen, d, now) ==
    LET K == Scale(gen)
        top == DrawHeader(d.target_date, K) \o DrawReadiness(header_y(K), K)
        schedule == DrawSchedule(gen, d, schedule_top(K), billable_top(K), K)
    IN  IF schedule.raised
        THEN [status |-> "raised", primitives |-> top \o schedule.primitives,
              map |-> schedule.map]
        ELSE [status |-> "ok",
              primitives |-> top \o schedule.primitives
                             \o DrawTodos(d, schedule_top(K), billable_top(K), K)
                             \o DrawBillableHours(billable_top(K), K)
                             \o DrawReflection(reflection_top(K), K)
                             \o DrawFooter(now, K),
              map |-> schedule.map]

\* The minutes at which a pass can read the clock.
Clock == {0, 1}

\* One generate call on the data of inputs, on a generator that has made
\* fewer than max_passes calls.
Generate(inputs, max_passes) ==
    /\ \E g \in DOMAIN gens, d \in inputs, now \in Clock :
          LET r == Generated(gens[g], d, now)
          IN  /\ out[g].passes < max_passes
              /\ gens' = [gens EXCEPT ![g].calendar_color_map = r.map]
              /\ out' = [out EXCEPT ![g] =
                            [data |-> d, now |-> now, status |-> r.status,
                             primitives |-> r.primitives, passes |-> @.passes + 1]]
              /\ data' = d
    /\ UNCHANGED <<last_call, tracksVars, calVars, fetchVars>>

(***************************************************************************)
(* The inputs of a layout pass: what the two sources leave in PlannerData  *)
(* (an all-day event has no times, a timed event a start and maybe an end; *)
(* a todo of the Tracks fetch is due on or before the target date), and    *)
(* the hours of the configuration, which nothing validates                 *)
(* (config.load_config, lines 130-131).                                    *)
(***************************************************************************)
LayoutDay == 1

AllDayEvent(title, calendar_name) ==
    CalendarEvent(title, NoTime, NoTime, TRUE, calendar_name)
TimedEvent(title, start_time, end_time, calendar_name) ==
    CalendarEvent(title, start_time, end_time, FALSE, calendar_name)

EventChoices(title) ==
    {AllDayEvent(title, c) : c \in {"Work", "Home"}}
    \cup {TimedEvent(title, s, e, c) :
            s \in {6, 9, 20, 23}, e \in {NoTime, 0, 9, 10, 22}, c \in {"Work", "Home"}}

ShortEventLists ==
    {<<>>} \cup {<<a>> : a \in EventChoices(1)}
    \cup {<<a, b>> : a \in EventChoices(1), b \in EventChoices(2)}

\* n all-day events of two calendars, then at most one timed event.
Banners(n) == [i \in 1..n |-> AllDayEvent(i, IF i % 2 = 1 THEN "Work" ELSE "Home")]

BannerLists ==
    UNION {{Banners(n) \o t : t \in {<<>>, <<TimedEvent(n + 1, 9, 10, "Work")>>,
                                     <<TimedEvent(n + 1, 20, NoTime, "Home")>>}}
           : n \in 0..MaxAllDay}

TodoChoices(ord) ==
    {TodoItem(ord, c, p, d) : c \in {"", "Work", "home"}, p \in {"", "planner"},
                              d \in {NoDate, 0, LayoutDay}}

ShortTodoLists ==
    {<<>>} \cup {<<a>> : a \in TodoChoices(1)}
    \cup {<<a, b>> : a \in TodoChoices(1), b \in TodoChoices(2)}

\* n todos spread over k contexts, projects and due dates alternating.
TodoPattern(n, k, projs, dues) ==
    [i \in 1..n |-> TodoItem(i, <<"home", "", "Work">>[((i - 1) % k) + 1],
                             projs[(i % 2) + 1], dues[(i % 2) + 1])]

LongTodoLists ==
    {TodoPattern(n, k, projs, dues) :
        n \in 3..MaxLayoutTodos, k \in 1..3,
        projs \in {<<"", "">>, <<"planner", "">>, <<"planner", "planner">>},
        dues \in {<<NoDate, NoDate>>, <<0, LayoutDay>>, <<0, 0>>}}

LayoutData(events, list) ==
    [target_date |-> LayoutDay, events |-> events, todos |-> list]

HourConfigs == {<<7, 21>>, <<8, 21>>, <<0, 24>>, <<8, 10>>, <<9, 9>>, <<21, 7>>}

LayoutCases ==
    ({LayoutData(e, <<>>) : e \in ShortEventLists \cup BannerLists} \X HourConfigs)
    \cup ({LayoutData(<<>>, t) : t \in ShortTodoLists \cup LongTodoLists}
          \X {<<7, 21>>, <<9, 9>>, <<21, 7>>})

\* What the passes of two generators are given.
PassInputs ==
    {LayoutData(<<AllDayEvent(1, "Work")>>, <<>>),
     LayoutData(<<TimedEvent(1, 9, 10, "Home")>>, <<>>),
     LayoutData(<<TimedEvent(1, 9, 10, "Home"), AllDayEvent(2, "Work")>>, <<>>),
     LayoutData(<<>>, <<TodoItem(1, "home", "planner", 0)>>)}

\* generate called once on the PlannerData of the run (main.py lines 139-145).
GenerateDay == Generate({data}, 1) /\ UNCHANGED runVars

\* generate called again on a generator that has drawn before.
GeneratePass == Generate(PassInputs, MaxPasses) /\ UNCHANGED runVars

(***************************************************************************)
(* main (planner/main.py): one run of the program.  The stages are the     *)
(* positions of main: "start", "caldav" (line 117), "caldav_fetch" (inside *)
(* CalDavSource.fetch), "tracks" (line 129), "tracks_fetch" (inside        *)
(* TracksSource.fetch), "layout" (line 141), "upload" (line 149), "done"   *)
(* and "exit" (sys.exit or an uncaught exception).                         *)
(***************************************************************************)
\* The date of the run: --date or date.today().
RunDay == 0

\* Lines 89-114: the registration run, the configuration, the date and the
\* fresh PlannerData.
StartRun ==
    /\ rpc = "start"
    /\ \E config_found \in BOOLEAN :
          IF args.register_remarkable \/ ~config_found \/ ~args.date_ok
          THEN rpc' = "exit" /\ UNCHANGED data
          ELSE rpc' = "caldav" /\ data' = PlannerData(RunDay)
    /\ UNCHANGED <<args, failed, tracksVars, calVars, fetchVars, layoutVars>>

\* Lines 117-119 and the first lines of CalDavSource.fetch: the stage is
\* skipped, or the source is built and fetch is entered.
EnterCalDav ==
    /\ rpc = "caldav"
    /\ IF args.skip_caldav THEN rpc' = "tracks" /\ UNCHANGED fpc
       ELSE rpc' = "caldav_fetch" /\ fpc' = "collect"
    /\ UNCHANGED <<data, args, failed, config_calendars, server, calendars_to_check,
                   nfetched, tracksVars, calVars, layoutVars>>

\* caldav.DAVClient raises (lines 27-31 of the source) and main catches it
\* (lines 122-127).
CalDavFailed ==
    /\ rpc = "caldav_fetch"
    /\ fpc = "collect"
    /\ fpc' = "raised"
    /\ rpc' = "tracks"
    /\ failed' = failed \cup {"caldav"}
    /\ UNCHANGED <<data, args, config_calendars, server, calendars_to_check, nfetched,
                   tracksVars, calVars, layoutVars>>

\* CalDavSource.fetch returned (lines 120-121).
CalDavReturned ==
    /\ rpc = "caldav_fetch"
    /\ fpc = "done"
    /\ rpc' = "tracks"
    /\ UNCHANGED <<data, args, failed, tracksVars, calVars, fetchVars, layoutVars>>

\* Lines 129-131: the stage is skipped, or the source is built and fetch is
\* entered.
EnterTracks ==
    /\ rpc = "tracks"
    /\ IF args.skip_tracks THEN rpc' = "layout" /\ UNCHANGED tpc
       ELSE rpc' = "tracks_fetch" /\ tpc' = "contexts"
    /\ UNCHANGED <<data, args, failed, contexts, projects, todos, nrec, calVars,
                   fetchVars, layoutVars>>

\* One iteration of the loop of _fetch_todos on a response of at most
\* MaxRunTodos elements.
RunParseTodo == nrec < MaxRunTodos /\ ParseTodo

TracksFailedExits ==
    /\ rpc = "tracks_fetch"
    /\ tpc = "raised"
    /\ rpc' = "exit"
    /\ failed' = failed \cup {"tracks"}
    /\ UNCHANGED <<data, args, tracksVars, calVars, fetchVars, layoutVars>>

\* TracksSource.fetch raised and main catches it (lines 134-138).
TracksFailed ==
    /\ rpc = "tracks_fetch"
    /\ tpc = "raised"
    /\ rpc' = "layout"
    /\ failed' = failed \cup {"tracks"}
    /\ UNCHANGED <<data, args, tracksVars, calVars, fetchVars, layoutVars>>

\* TracksSource.fetch returned (lines 132-133).
TracksReturned ==
    /\ rpc = "tracks_fetch"
    /\ tpc = "done"
    /\ rpc' = "layout"
    /\ UNCHANGED <<data, args, failed, tracksVars, calVars, fetchVars, layoutVars>>

\* Lines 141-147: generate on the PlannerData as it stands; an exception of
\* generate is not caught.
LayoutStage ==
    /\ rpc = "layout"
    /\ Generate({data}, 1)
    /\ rpc' = IF out'[1].status = "ok" THEN "upload" ELSE "exit"
    /\ UNCHANGED <<args, failed>>

\* Lines 149-168: the upload, unless --no-upload or rmapi is missing; a
\* failed upload exits with status 1.
Upload ==
    /\ rpc = "upload"
    /\ \E no_upload \in BOOLEAN, uploaded \in BOOLEAN :
          rpc' = IF no_upload \/ uploaded THEN "done" ELSE "exit"
    /\ UNCHANGED <<data, args, failed, tracksVars, calVars, fetchVars, layoutVars>>

(***************************************************************************)
(* Specifications.                                                         *)
(***************************************************************************)
TracksIdle ==
    /\ tpc = "idle"
    /\ contexts = EmptyTable
    /\ projects = EmptyTable
    /\ todos = <<>>
    /\ nrec = 0

CalIdle ==
    /\ cpc = "idle"
    /\ occ = OtherComponent
    /\ nwalk = 0
    /\ instance_dt = NoInstant
    /\ warned = FALSE
    /\ parse_warnings = 0

FetchIdle ==
    /\ fpc = "idle"
    /\ config_calendars = <<>>
    /\ server = [u \in {WorkUrl, HomeUrl} |-> <<>>]
    /\ calendars_to_check = <<>>
    /\ nfetched = 0

NoOutput ==
    [data |-> PlannerData(0), now |-> 0, status |-> "none", primitives |-> <<>>,
     passes |-> 0]

LayoutIdle ==
    /\ gens = [g \in {1} |-> PlannerPDFGenerator(8, 21)]
    /\ out = [g \in {1} |-> NoOutput]
    /\ last_call = NoCall

NoArgs ==
    [register_remarkable |-> FALSE, date_ok |-> TRUE, skip_caldav |-> FALSE,
     skip_tracks |-> FALSE]

RunIdle ==
    /\ rpc = "idle"
    /\ args = NoArgs
    /\ failed = {}

\* TracksSource.fetch on a fresh PlannerData.
InitTracks ==
    /\ data \in {PlannerData(t) : t \in 0..MaxDueDay}
    /\ tpc = "contexts"
    /\ contexts = EmptyTable
    /\ projects = EmptyTable
    /\ todos = <<>>
    /\ nrec = 0
    /\ CalIdle
    /\ FetchIdle
    /\ LayoutIdle
    /\ RunIdle

NextTracks == FetchContexts \/ FetchProjects \/ ParseTodo \/ FinishTodos

SpecTracks == InitTracks /\ [][NextTracks]_vars

\* _parse_event on one occurrence of a search result.
InitEvent ==
    /\ data \in {PlannerData(t) : t \in 0..MaxDay}
    /\ cpc = "results"
    /\ occ = OtherComponent
    /\ nwalk = 0
    /\ instance_dt = NoInstant
    /\ warned = FALSE
    /\ parse_warnings = 0
    /\ TracksIdle
    /\ FetchIdle
    /\ LayoutIdle
    /\ RunIdle

NextEvent == ParseOccurrence

SpecEvent == InitEvent /\ [][NextEvent]_vars

\* _fetch_calendar_events on one calendar.
InitCal ==
    /\ data \in {PlannerData(t) : t \in 0..MaxFetchDay}
    /\ cpc = "search"
    /\ occ = OtherComponent
    /\ nwalk = 0
    /\ instance_dt = NoInstant
    /\ warned = FALSE
    /\ parse_warnings = 0
    /\ TracksIdle
    /\ FetchIdle
    /\ LayoutIdle
    /\ RunIdle

NextCal == SearchOk \/ SearchFailed \/ ParseResult \/ FinishResults

SpecCal == InitCal /\ [][NextCal]_vars

\* CalDavSource.fetch on a fresh PlannerData, for every configuration of
\* calendars and every content of the server's calendars.
InitFetch ==
    /\ data = PlannerData(0)
    /\ fpc = "collect"
    /\ config_calendars \in UNION {[1..n -> ConfigEntries] : n \in 0..MaxCalendars}
    /\ server \in [{WorkUrl, HomeUrl} -> CalendarContents]
    /\ calendars_to_check = <<>>
    /\ nfetched = 0
    /\ TracksIdle
    /\ CalIdle
    /\ LayoutIdle
    /\ RunIdle

NextFetch == CollectCalendars \/ FetchCalendar \/ FinishFetch

SpecFetch == InitFetch /\ [][NextFetch]_vars

\* Any sequence of _get_calendar_color calls on one generator.
InitColor ==
    /\ data = PlannerData(0)
    /\ TracksIdle
    /\ CalIdle
    /\ FetchIdle
    /\ LayoutIdle
    /\ RunIdle

NextColor == GetCalendarColor

SpecColor == InitColor /\ [][NextColor]_vars

\* One layout pass of a fresh generator, for every input and configuration.
InitLayout ==
    /\ \E case \in LayoutCases :
          /\ data = case[1]
          /\ gens = [g \in {1} |-> PlannerPDFGenerator(case[2][1], case[2][2])]
    /\ out = [g \in {1} |-> NoOutput]
    /\ last_call = NoCall
    /\ TracksIdle
    /\ CalIdle
    /\ FetchIdle
    /\ RunIdle

NextLayout == GenerateDay

SpecLayout == InitLayout /\ [][NextLayout]_vars

\* Two generators of the same configuration, each drawing several times.
InitPasses ==
    /\ data = LayoutData(<<>>, <<>>)
    /\ gens = [g \in {1, 2} |-> PlannerPDFGenerator(8, 10)]
    /\ out = [g \in {1, 2} |-> NoOutput]
    /\ last_call = NoCall
    /\ TracksIdle
    /\ CalIdle
    /\ FetchIdle
    /\ RunIdle

NextPasses == GeneratePass

SpecPasses == InitPasses /\ [][NextPasses]_vars

\* The configured hours of the runs.
RunHours == {<<7, 21>>, <<9, 9>>}

\* One run of main, for every command line, with one configured calendar
\* URL and every content of the calendar behind that URL.  The
\* generator is the one main builds from the configured hours.
InitRun ==
    /\ rpc = "start"
    /\ args \in [register_remarkable : BOOLEAN, date_ok : BOOLEAN,
                  skip_caldav : BOOLEAN, skip_tracks : BOOLEAN]
    /\ failed = {}
    /\ data = PlannerData(RunDay)
    /\ fpc = "idle"
    /\ config_calendars = <<WorkUrl>>
    /\ server \in {[u \in {WorkUrl, HomeUrl} |-> IF u = WorkUrl THEN c ELSE <<>>] :
                       c \in CalendarContents}
    /\ calendars_to_check = <<>>
    /\ nfetched = 0
    /\ \E h \in RunHours : gens = [g \in {1} |-> PlannerPDFGenerator(h[1], h[2])]
    /\ out = [g \in {1} |-> NoOutput]
    /\ last_call = NoCall
    /\ TracksIdle
    /\ CalIdle

NextRun ==
    \/ StartRun
    \/ EnterCalDav \/ CalDavFailed \/ CollectCalendars \/ FetchCalendar \/ FinishFetch
    \/ CalDavReturned
    \/ EnterTracks \/ FetchContexts \/ FetchProjects \/ RunParseTodo \/ FinishTodos
    \/ TracksFailed \/ TracksReturned
    \/ LayoutStage
    \/ Upload

SpecRun == InitRun /\ [][NextRun]_vars



(***************************************************************************)
(* Properties of the Tracks fetch (SpecTracks).                            *)
(***************************************************************************)
Appended(t) == \E i \in DOMAIN data.todos : data.todos[i] = t

Qualifies(t) == t.due_date # NoDate /\ t.due_date <= data.target_date

\* C1: once the fetch has completed, the todos appended to PlannerData are
\* exactly the parsed todos whose due date is set and not after the target
\* date: none without a due date, none due later, no qualifying one left
\* out, none twice.
C1_TodoSelection ==
    tpc = "done" =>
        /\ \A i \in DOMAIN data.todos :
              /\ data.todos[i].due_date # NoDate
              /\ data.todos[i].due_date <= data.target_date
              /\ \E j \in DOMAIN todos : todos[j] = data.todos[i]
        /\ \A j \in DOMAIN todos : Qualifies(todos[j]) => Appended(todos[j])
        /\ \A i, k \in DOMAIN data.todos : data.todos[i] = data.todos[k] => i = k

\* A fetch of three todos that dropped one without a due date and one due
\* after the target date and appended one due on the target date.
C1_Witness ==
    /\ tpc = "done"
    /\ Len(todos) = 3
    /\ Len(data.todos) = 1
    /\ data.todos[1].due_date = data.target_date
    /\ \E j \in DOMAIN todos : todos[j].due_date = NoDate
    /\ \E j \in DOMAIN todos : todos[j].due_date > data.target_date

\* C2: the appended todos are ordered non-increasing by due date, and two
\* todos with the same due date keep the relative order of the response.
C2_TodoOrdering ==
    tpc = "done" =>
        \A i, j \in DOMAIN data.todos :
            i < j =>
                /\ data.todos[i].due_date >= data.todos[j].due_date
                /\ data.todos[i].due_date = data.todos[j].due_date
                       => data.todos[i].description < data.todos[j].description

\* Three appended todos, the overdue one parsed first and two todos due on
\* the target date after it: the sort has moved the tie ahead of it.
C2_Witness ==
    /\ tpc = "done"
    /\ Len(data.todos) = 3
    /\ todos[1].due_date < todos[2].due_date
    /\ todos[2].due_date = todos[3].due_date
    /\ data.todos[1] = todos[2]
    /\ data.todos[2] = todos[3]
    /\ data.todos[3] = todos[1]

\* C10: no todo record makes the fetch raise, and every well-formed record
\* with a qualifying due date is appended, whatever the other records are.
C10_TodoIsolation ==
    /\ nrec > 0 => tpc # "raised"
    /\ tpc \in {"done", "raised"} =>
          \A j \in DOMAIN todos : Qualifies(todos[j]) => Appended(todos[j])

(***************************************************************************)
(* Properties of the event normalisation (SpecEvent: one occurrence;       *)
(* SpecCal: a whole search result).                                        *)
(***************************************************************************)
\* The civil date and the time of day of a raw value in the configured
\* zone: a bare date as it is, a naive timestamp taken as local, an aware
\* one converted.
CivilDate(v) ==
    IF v.kind = "aware" THEN (v.wall - v.off + TzOffset) \div 24 ELSE v.wall \div 24

CivilTime(v) ==
    IF v.kind = "aware" THEN (v.wall - v.off + TzOffset) % 24
    ELSE IF v.kind = "naive" THEN v.wall % 24 ELSE NoTime

\* The local wall clock reading of the anchor of a rule.
AnchorWall(v) ==
    IF v.kind = "aware" THEN v.wall - v.off + TzOffset ELSE v.wall

\* The last step normalised an occurrence that has a start.
Normalised == nwalk >= 1 /\ occ.name = "VEVENT" /\ occ.dtstart.kind # "none"

\* The Event the last step appended, if it appended one.
Produced ==
    /\ data.events # <<>>
    /\ data.events[Len(data.events)].title = nwalk

LastEvent == data.events[Len(data.events)]

\* C3: an occurrence without a recurrence rule produces an Event exactly
\* when the civil date of its start in the configured zone is the target
\* date; a multi-day event begun before the target date and ending on or
\* after it produces none.
C3_NonRecurringFilter ==
    (Normalised /\ occ.rrule.freq = "NONE") =>
        /\ Produced <=> CivilDate(occ.dtstart) = data.target_date
        /\ Len(data.events) <= 1
        /\ (/\ CivilDate(occ.dtstart) < data.target_date
            /\ occ.dtend.kind # "none"
            /\ CivilDate(occ.dtend) >= data.target_date) => data.events = <<>>

\* An aware start whose date in its own zone is not the target date but
\* whose date in the configured zone is: the Event is produced.
C3_Witness ==
    /\ Normalised
    /\ occ.rrule.freq = "NONE"
    /\ occ.dtstart.kind = "aware"
    /\ occ.dtstart.wall \div 24 # data.target_date
    /\ Produced

\* C4: every all-day Event of PlannerData has neither start nor end time,
\* every other Event has a start time, and an occurrence is classified
\* all-day exactly when its raw start is a bare date, recurring or not.
C4_EventModel ==
    /\ \A i \in DOMAIN data.events :
          LET e == data.events[i]
          IN  /\ e.all_day => e.start_time = NoTime /\ e.end_time = NoTime
              /\ ~e.all_day => e.start_time # NoTime
    /\ (Normalised /\ Produced) => (LastEvent.all_day <=> occ.dtstart.kind = "date")

\* PlannerData holds a timed Event, and the last step appended an all-day
\* Event for a recurring occurrence that starts on a bare date.
C4_Witness ==
    /\ Normalised
    /\ Produced
    /\ Len(data.events) = 2
    /\ ~data.events[1].all_day
    /\ occ.rrule.freq = "DAILY"
    /\ occ.dtstart.kind = "date"
    /\ LastEvent.all_day

\* C5: a weekly rule whose anchor falls on another weekday than the target
\* date yields no occurrence and no Event.
C5_WeeklyOtherWeekday ==
    (/\ Normalised
     /\ occ.rrule.freq = "WEEKLY"
     /\ CivilDate(occ.dtstart) % 7 # data.target_date % 7)
        => instance_dt = NoInstant /\ ~Produced

\* C6: a daily rule without end hits every target date on or after the
\* civil date of its anchor, a weekly rule without end hits the date two
\* weeks after its anchor; the instance used lies on the target date, it is
\* the earliest occurrence of the window, and the Event is produced.
C6_RecurrenceHit ==
    (/\ Normalised
     /\ occ.rrule.count = 0
     /\ \/ /\ occ.rrule.freq = "DAILY"
           /\ data.target_date >= CivilDate(occ.dtstart)
        \/ /\ occ.rrule.freq = "WEEKLY"
           /\ data.target_date = CivilDate(occ.dtstart) + 14)
        => /\ instance_dt # NoInstant
           /\ instance_dt \div 24 = data.target_date
           /\ Produced
           /\ \A k \in 0..(MaxDay + 2) :
                 LET o == AnchorWall(occ.dtstart)
                          + k * (IF occ.rrule.freq = "DAILY" THEN 24 ELSE 168)
                 IN  (data.target_date * 24 <= o /\ o <= (data.target_date + 1) * 24)
                         => instance_dt <= o

\* A daily rule anchored at midnight, checked for a later date: the window
\* holds two occurrences and the one on the target date is used.
C6_Witness ==
    /\ Normalised
    /\ occ.rrule = [freq |-> "DAILY", count |-> 0]
    /\ occ.dtstart.kind = "naive"
    /\ occ.dtstart.wall % 24 = 0
    /\ data.target_date > CivilDate(occ.dtstart)
    /\ instance_dt = data.target_date * 24
    /\ Produced

\* C7: for a target date before the civil date of the anchor, a recurring
\* occurrence yields no occurrence and no Event.
C7_BeforeAnchor ==
    (/\ Normalised
     /\ occ.rrule.freq \in {"DAILY", "WEEKLY"}
     /\ data.target_date < CivilDate(occ.dtstart))
        => instance_dt = NoInstant /\ ~Produced

\* C8: when the recurrence check fails (the rule text is rejected, or the
\* check raises later), exactly one Event is still produced, with the times
\* of day of the original start and end, and the loop goes on.
C8_FailurePolicy ==
    (Normalised /\ (occ.rrule.freq = "BAD" \/ warned)) =>
        /\ warned
        /\ cpc = "results"
        /\ Len(data.events) = 1
        /\ Produced
        /\ LastEvent.all_day = (occ.dtstart.kind = "date")
        /\ LastEvent.start_time = CivilTime(occ.dtstart)
        /\ LastEvent.end_time =
               (IF occ.dtstart.kind = "date" THEN NoTime ELSE CivilTime(occ.dtend))

\* A rejected rule on a timed occurrence that does not start on the target
\* date: the Event is kept with its own times.
C8_Witness ==
    /\ Normalised
    /\ occ.rrule.freq = "BAD"
    /\ occ.dtstart.kind = "aware"
    /\ occ.dtend.kind = "aware"
    /\ CivilDate(occ.dtstart) # data.target_date
    /\ Produced
    /\ LastEvent.start_time = CivilTime(occ.dtstart)
    /\ LastEvent.end_time # NoTime

\* A malformed item: an object that cannot be parsed, or an occurrence
\* without a start.
Malformed(item) ==
    item.name = "unparsable" \/ (item.name = "VEVENT" /\ item.dtstart.kind = "none")

\* Occurrences the normalisation keeps: a singular one starting on the
\* target date, an endless daily one anchored on or before it, one whose
\* rule is rejected.
Kept(item) ==
    /\ item.name = "VEVENT"
    /\ item.dtstart.kind # "none"
    /\ \/ item.rrule.freq = "NONE" /\ CivilDate(item.dtstart) = data.target_date
       \/ item.rrule.freq = "BAD"
       \/ /\ item.rrule = [freq |-> "DAILY", count |-> 0]
          /\ CivilDate(item.dtstart) <= data.target_date

\* C9: the fetch never raises; a malformed item appends no Event, a kept
\* occurrence appends its Event whatever came before it, and no step
\* changes or removes an Event appended earlier.
C9_EventIsolation ==
    /\ [](/\ cpc # "raised"
          /\ nwalk >= 1 =>
                /\ Malformed(occ) => ~Produced
                /\ Kept(occ) => (Produced /\ cpc \in {"results", "done"}))
    /\ [][/\ Len(data'.events) >= Len(data.events)
          /\ SubSeq(data'.events, 1, Len(data.events)) = data.events]_vars

\* The first item could not be parsed and was logged; the second, a
\* well-formed occurrence, was still appended.
C9_Witness ==
    /\ nwalk = 2
    /\ parse_warnings = 1
    /\ Kept(occ)
    /\ Produced
    /\ Len(data.events) = 1

(***************************************************************************)
(* Properties of the whole CalDAV fetch (SpecFetch).                       *)
(***************************************************************************)
\* C11: when fetch has returned, whatever config.calendars lists, no two
\* events of PlannerData.events stem from the same entry of the same
\* calendar (an entry's identity is carried by its title).
C11_Deduplicated ==
    fpc = "done" =>
        \A i, j \in DOMAIN data.events :
            data.events[i].title = data.events[j].title => i = j

(***************************************************************************)
(* Properties of the colour assignment (SpecColor).                        *)
(***************************************************************************)
\* C12: a call of _get_calendar_color for a name not yet mapped gives it
\* the index (number of names mapped before the call) mod 5 and returns that
\* pair of the palette, so the first name gets index 0 and the sixth the
\* pair of the first; a call for a mapped name returns the pair of the
\* index the name already has.
C12_ColorFormula ==
    [][LET g == last_call'.gen
           name == last_call'.calendar_name
           before == gens[g].calendar_color_map
           after == gens'[g].calendar_color_map
       IN  /\ name \notin DOMAIN before =>
                /\ after[name] = Cardinality(DOMAIN before) % 5
                /\ last_call'.colors = CALENDAR_COLORS[(Cardinality(DOMAIN before) % 5) + 1]
                /\ (before = EmptyColorMap => after[name] = 0)
                /\ (Cardinality(DOMAIN before) = 5 =>
                        \E first \in DOMAIN before :
                            /\ before[first] = 0
                            /\ last_call'.colors = CALENDAR_COLORS[before[first] + 1])
           /\ name \in DOMAIN before =>
                last_call'.colors = CALENDAR_COLORS[before[name] + 1]]_vars

\* The sixth distinct name has just been given the pair of the first.
C12_Witness ==
    /\ last_call.fresh
    /\ Cardinality(DOMAIN gens[1].calendar_color_map) = 6
    /\ gens[1].calendar_color_map[last_call.calendar_name] = 0
    /\ last_call.colors = CALENDAR_COLORS[1]

(***************************************************************************)
(* Properties of the layout passes (SpecPasses, SpecLayout).               *)
(***************************************************************************)
SameButTimestamp(p, q) ==
    /\ Len(p) = Len(q)
    /\ \A i \in DOMAIN p :
          p[i] = q[i] \/ (p[i].part = "footer_timestamp" /\ q[i].part = "footer_timestamp")

\* C13: two passes given the same data and the same configuration draw the
\* same sequence of primitives, the footer timestamp apart, whatever the
\* generators that make them drew before.
C13_Deterministic ==
    \A g, h \in DOMAIN gens :
        (/\ out[g].status # "none"
         /\ out[h].status # "none"
         /\ out[g].data = out[h].data
         /\ gens[g].day_start_hour = gens[h].day_start_hour
         /\ gens[g].day_end_hour = gens[h].day_end_hour)
            => SameButTimestamp(out[g].primitives, out[h].primitives)

\* The pass of SpecLayout and what it drew.
Pass == out[1]
Drawn(part) == {j \in DOMAIN Pass.primitives : Pass.primitives[j].part = part}
DrawnFor(part, ref) == {j \in Drawn(part) : Pass.primitives[j].ref = ref}
day_start == gens[1].day_start_hour
day_end == gens[1].day_end_hour

\* The bottom boundary of the middle region, in the scale of the pass.
Bottom == billable_top(Scale(gens[1]))

\* C14: a pass whose first hour is not before its last hour fails before it
\* draws anything, so no pass ends with such hours.
C14_HoursRejected ==
    (Pass.status # "none" /\ day_start >= day_end) =>
        (Pass.status = "raised" /\ Pass.primitives = <<>>)

\* The top of the hour grid and the height of an hour row, read off the hour
\* lines of a pass with two rows or more.
GridTop == Pass.primitives[CHOOSE j \in DrawnFor("hour_line", day_start) : TRUE].y
RowHeight ==
    GridTop - Pass.primitives[CHOOSE j \in DrawnFor("hour_line", day_start + 1) : TRUE].y
GridY(hour) == GridTop - (hour - day_start) * RowHeight

\* The hours an event covers: to its end, or for one hour when it has none.
EndOf(e) == IF e.end_time = NoTime THEN e.start_time + 1 ELSE e.end_time
TimedEvents == {i \in DOMAIN Pass.data.events : ~Pass.data.events[i].all_day}

Within(a, x, b) == (a <= x /\ x <= b) \/ (b <= x /\ x <= a)

\* C15: a pass draws for a timed event one rectangle, from the grid position
\* of the later of its start and the first hour down to that of the earlier
\* of its end and the last hour, inside the grid, when these hours overlap
\* the grid, and no rectangle when they do not.
C15_TimedClipping ==
    Pass.status # "none" =>
        \A i \in TimedEvents :
            LET e == Pass.data.events[i]
                lo == IF e.start_time > day_start THEN e.start_time ELSE day_start
                hi == IF EndOf(e) < day_end THEN EndOf(e) ELSE day_end
                rects == DrawnFor("event", e.title)
            IN  IF lo < hi /\ Pass.status = "ok"
                THEN /\ Cardinality(rects) = 1
                     /\ \A j \in rects :
                           LET r == Pass.primitives[j]
                           IN  /\ r.y + r.h = GridY(lo)
                               /\ r.y = GridY(hi)
                               /\ Within(GridY(day_end), r.y, GridTop)
                               /\ Within(GridY(day_end), r.y + r.h, GridTop)
                ELSE rects = {}

\* An event that starts before the first hour is drawn from the top of the
\* grid, and one that lies outside the hours is not drawn.
C15_Witness ==
    /\ Pass.status = "ok"
    /\ \E i \in TimedEvents :
          /\ Pass.data.events[i].start_time < day_start
          /\ \E j \in DrawnFor("event", i) :
                /\ Pass.primitives[j].y + Pass.primitives[j].h = GridTop
                /\ Pass.primitives[j].h > 0
    /\ \E i \in TimedEvents :
          /\ Pass.data.events[i].start_time >= day_end
          /\ DrawnFor("event", i) = {}

\* The todos in the order of the column: group after group, by name.
RowOrder ==
    LET names == GroupNames(Pass.data.todos)
        F[n \in 0..Len(names)] ==
            IF n = 0 THEN <<>> ELSE F[n - 1] \o GroupOf(Pass.data.todos, names[n])
    IN  F[Len(names)]
RowDrawn(todo) == DrawnFor("todo_description", todo.description) # {}
HeaderDrawn(name) ==
    \E j \in Drawn("context_header") : Pass.primitives[j].text = "@ " \o name

\* C16: in a pass that reaches the todos column, no group header, checkbox,
\* description or detail line is drawn below the bottom boundary; a row is
\* drawn only under its group header and only after every row before it, a
\* group header only after every row of the groups before it; and the pass
\* returns.
C16_TodoOverflow ==
    (Pass.status # "none" /\ day_start # day_end) =>
        /\ Pass.status = "ok"
        /\ \A j \in Drawn("context_header") \cup Drawn("todo_checkbox")
                    \cup Drawn("todo_description") \cup Drawn("todo_detail") :
              Pass.primitives[j].y >= Bottom
        /\ \A i, k \in DOMAIN RowOrder :
              (i < k /\ RowDrawn(RowOrder[k])) => RowDrawn(RowOrder[i])
        /\ \A i, k \in DOMAIN RowOrder :
              (/\ i < k
               /\ ContextOf(RowOrder[i]) # ContextOf(RowOrder[k])
               /\ HeaderDrawn(ContextOf(RowOrder[k]))) => RowDrawn(RowOrder[i])
        /\ \A i \in DOMAIN RowOrder :
              RowDrawn(RowOrder[i]) => HeaderDrawn(ContextOf(RowOrder[i]))

\* More todos than the column holds: the first rows are drawn, the last are
\* not.
C16_Witness ==
    /\ Pass.status = "ok"
    /\ Len(RowOrder) >= 2
    /\ RowDrawn(RowOrder[1])
    /\ ~RowDrawn(RowOrder[Len(RowOrder)])

\* C17: in a pass with valid hours, however many all-day events there are,
\* every banner and every hour row is drawn at or above the bottom boundary
\* and the hour rows have a positive height.
C17_ScheduleInRegion ==
    (Pass.status # "none" /\ day_start + 1 < day_end) =>
        /\ Pass.status = "ok"
        /\ \A j \in Drawn("banner") \cup Drawn("banner_label") \cup Drawn("hour_label")
                    \cup Drawn("hour_line") :
              Pass.primitives[j].y >= Bottom
        /\ RowHeight > 0

\* C18: a timed event that starts within the hours and has no end, or an end
\* equal to its start, is drawn as a rectangle of one hour from its start,
\* cut at the last hour.
C18_OneHourDefault ==
    Pass.status = "ok" =>
        \A i \in TimedEvents :
            LET e == Pass.data.events[i]
                hi == IF e.start_time + 1 < day_end THEN e.start_time + 1 ELSE day_end
            IN  (/\ day_start <= e.start_time
                 /\ e.start_time < day_end
                 /\ e.end_time \in {NoTime, e.start_time})
                    => \E j \in DrawnFor("event", e.title) :
                          /\ Pass.primitives[j].y + Pass.primitives[j].h = GridY(e.start_time)
                          /\ Pass.primitives[j].y = GridY(hi)

(***************************************************************************)
(* More properties of the normalisation (SpecEvent) and of the colour      *)
(* assignment (SpecColor).                                                 *)
(***************************************************************************)
\* C19: a recurring timed occurrence with a hit yields an Event that starts
\* at the time of day of the hit and, when the occurrence has an end, ends at
\* the time of day of the hit plus (end - anchor); without an end the Event
\* has no end time.
C19_DurationPreserved ==
    (/\ Normalised
     /\ occ.rrule.freq \in {"DAILY", "WEEKLY"}
     /\ IsDatetime(occ.dtstart)
     /\ instance_dt # NoInstant)
        => /\ Produced
           /\ LastEvent.start_time = instance_dt % 24
           /\ LastEvent.end_time =
                 IF occ.dtend.kind = "none" THEN NoTime
                 ELSE (instance_dt + (AnchorWall(occ.dtend) - AnchorWall(occ.dtstart))) % 24

\* C20: a call of _get_calendar_color never removes a name from the map nor
\* changes the index of a mapped name, and what it returns, for a banner or
\* for a timed rectangle, is the pair of the index the name has in the map:
\* every request for a calendar gets the same pair.
C20_ColorStable ==
    /\ [](last_call # NoCall =>
            last_call.colors =
                CALENDAR_COLORS[gens[last_call.gen].calendar_color_map[last_call.calendar_name] + 1])
    /\ [][\A g \in DOMAIN gens :
            /\ DOMAIN gens[g].calendar_color_map \subseteq DOMAIN gens'[g].calendar_color_map
            /\ \A n \in DOMAIN gens[g].calendar_color_map :
                  gens'[g].calendar_color_map[n] = gens[g].calendar_color_map[n]]_vars

\* The first of six names is requested again, for a timed rectangle, and
\* still has the first pair.
C20_Witness ==
    /\ ~last_call.fresh
    /\ last_call.site = "timed"
    /\ Cardinality(DOMAIN gens[1].calendar_color_map) = 6
    /\ gens[1].calendar_color_map[last_call.calendar_name] = 0
    /\ last_call.colors = CALENDAR_COLORS[1]

(***************************************************************************)
(* More properties of one layout pass (SpecLayout).                        *)
(***************************************************************************)
\* The names of a sequence of events in the order of their first appearance.
RECURSIVE FirstAppearances(_)
FirstAppearances(events) ==
    IF events = <<>> THEN <<>>
    ELSE LET before == FirstAppearances(SubSeq(events, 1, Len(events) - 1))
             name == events[Len(events)].calendar_name
         IN  IF \E k \in DOMAIN before : before[k] = name THEN before
             ELSE Append(before, name)

\* The colour map gives the k-th name of names the index (k - 1) mod 5 and
\* maps no other name.
IndexedInOrder(map, names) ==
    /\ DOMAIN map = {names[k] : k \in DOMAIN names}
    /\ \A k \in DOMAIN names : map[names[k]] = (k - 1) % 5

\* C21 as stated: after a pass of a fresh generator the k-th distinct
\* calendar name of PlannerData.events has the index (k - 1) mod 5.
C21_InsertionOrder ==
    Pass.status = "ok" =>
        IndexedInOrder(gens[1].calendar_color_map, FirstAppearances(Pass.data.events))

\* The events a pass asks a colour for, in the order it asks: the all-day
\* events, then the timed events whose hours overlap the hour grid.
ColourRequests ==
    SelectSeq(Pass.data.events, LAMBDA e : e.all_day)
    \o SelectSeq(Pass.data.events,
                 LAMBDA e : /\ ~e.all_day
                            /\ Pass.status = "ok"
                            /\ (IF e.start_time > day_start THEN e.start_time ELSE day_start)
                                   < (IF EndOf(e) < day_end THEN EndOf(e) ELSE day_end))

\* C21, amended: after a pass of a fresh generator the calendar names have
\* their indices in the order of their first colour request, the all-day
\* events first and then the timed events that overlap the hour grid, each
\* in the order of PlannerData.events; a calendar whose events are all
\* outside the hours has no index.
C21_DrawOrder ==
    Pass.status # "none" =>
        IndexedInOrder(gens[1].calendar_color_map, FirstAppearances(ColourRequests))

\* A timed event of one calendar before an all-day event of another: the
\* calendar of the all-day event has index 0.
C21_Witness ==
    /\ Pass.status = "ok"
    /\ Len(Pass.data.events) = 2
    /\ ~Pass.data.events[1].all_day
    /\ Pass.data.events[2].all_day
    /\ Pass.data.events[1].calendar_name # Pass.data.events[2].calendar_name
    /\ DrawnFor("event", 1) # {}
    /\ gens[1].calendar_color_map[Pass.data.events[2].calendar_name] = 0
    /\ gens[1].calendar_color_map[Pass.data.events[1].calendar_name] = 1

\* The number of hour rows of a pass, and an hour in two digits.
hour_count == day_end - day_start
TwoDigits(hour) == IF hour < 10 THEN "0" \o ToString(hour) ELSE ToString(hour)

\* C22: a pass with valid hours draws exactly day_end - day_start hour rows,
\* row i at i times min(available height / hour count, 12 mm) below the top
\* of the grid (in the scale of the pass, where the division is exact) and
\* labelled with the hour day_start + i; with the hours 7
\* to 21 and no events these are 14 rows and neither an event rectangle nor
\* a banner.
C22_HourGrid ==
    (Pass.status # "none" /\ day_start < day_end) =>
        LET K == Scale(gens[1])
            top == GridTop
            available == top - Bottom
            capped == IF available < 12 * mm * K * hour_count
                      THEN available ELSE 12 * mm * K * hour_count
            height == capped \div hour_count
            lines == {Pass.primitives[j].y : j \in Drawn("hour_line")}
            labels == {<<Pass.primitives[j].y, Pass.primitives[j].text>> :
                          j \in Drawn("hour_label")}
        IN  /\ Pass.status = "ok"
            /\ Cardinality(Drawn("hour_line")) = hour_count
            /\ Cardinality(Drawn("hour_label")) = hour_count
            /\ height * hour_count = capped
            /\ lines = {top - i * height : i \in 0..(hour_count - 1)}
            /\ labels = {<<top - i * height - 3 * mm * K, TwoDigits(day_start + i) \o ":00">> :
                            i \in 0..(hour_count - 1)}
            /\ (day_start = 7 /\ day_end = 21 /\ Pass.data.events = <<>>) =>
                  /\ Cardinality(Drawn("hour_line")) = 14
                  /\ Drawn("event") = {} /\ Drawn("banner") = {}

\* The pass with the hours 7 to 21 and no events, and its 14 rows.
C22_Witness ==
    /\ Pass.status = "ok"
    /\ day_start = 7 /\ day_end = 21
    /\ Pass.data.events = <<>>
    /\ Cardinality(Drawn("hour_line")) = 14
    /\ Cardinality({Pass.primitives[j].y : j \in Drawn("hour_line")}) = 14

\* The all-day events of the pass, and the top of the hour grid in the
\* layout of the same input without the i-th event.
AllDayEvents == {i \in DOMAIN Pass.data.events : Pass.data.events[i].all_day}
Without(events, i) == SubSeq(events, 1, i - 1) \o SubSeq(events, i + 1, Len(events))
GridTopWithout(i) ==
    LET K == Scale(gens[1])
    IN  DrawSchedule(PlannerPDFGenerator(day_start, day_end),
                     [Pass.data EXCEPT !.events = Without(Pass.data.events, i)],
                     schedule_top(K), billable_top(K), K).y

\* C23 as stated: an all-day event moves the top of the hour grid down, and
\* shrinks the height left for the grid, by the 5 mm of its banner.
C23_BannerHeight ==
    (Pass.status = "ok" /\ day_start < day_end) =>
        \A i \in AllDayEvents :
            GridTop = GridTopWithout(i) - 5 * mm * Scale(gens[1])

\* C23, amended: compared with the same layout without it, the only all-day
\* event moves the top of the hour grid down, and shrinks the height left
\* for the grid, by 9 mm (the 5 mm banner, a 1 mm gap and 3 mm of padding),
\* and each all-day event beyond the first by 6 mm (banner and gap).
C23_BannerAndGaps ==
    (Pass.status = "ok" /\ day_start < day_end) =>
        \A i \in AllDayEvents :
            /\ GridTop = GridTopWithout(i)
                           - (IF AllDayEvents = {i} THEN 9 ELSE 6) * mm * Scale(gens[1])
            /\ GridTop - Bottom = (GridTopWithout(i) - Bottom)
                           - (IF AllDayEvents = {i} THEN 9 ELSE 6) * mm * Scale(gens[1])

\* A pass with one all-day event and one with two: the banners are drawn
\* above the grid.
C23_Witness ==
    /\ Pass.status = "ok" /\ day_start < day_end
    /\ Cardinality(AllDayEvents) \in {1, 2}
    /\ Cardinality(Drawn("banner")) = Cardinality(AllDayEvents)
    /\ \A j \in Drawn("banner") : Pass.primitives[j].y > GridTop

\* The label of the group header a row stands under: that of the last header
\* drawn before it.
HeaderAbove(j) ==
    LET above == {h \in Drawn("context_header") : h < j}
    IN  IF above = {} THEN ""
        ELSE Pass.primitives[CHOOSE h \in above : \A g \in above : g <= h].text

\* The todo of a row, by its place in PlannerData.todos.
TodoOf(j) == Pass.data.todos[Pass.primitives[j].ref]

\* The group labels of the model in alphabetical order, as a dictionary has
\* them (letter by letter, capitals and small letters alike).
Alphabetical == <<"@ home", "@ No Context", "@ Work">>
AlphabeticalRank(label) == CHOOSE k \in DOMAIN Alphabetical : Alphabetical[k] = label

\* C24: every todo row stands under the header of its context, the todos of
\* empty context under the one placeholder header; no group has two headers;
\* the headers follow each other in alphabetical order; and the rows of one
\* group follow each other as their todos do in PlannerData.todos.
C24_TodoGrouping ==
    Pass.status = "ok" =>
        /\ \A j \in Drawn("todo_description") :
              HeaderAbove(j) = "@ " \o (IF TodoOf(j).context = "" THEN "No Context"
                                        ELSE TodoOf(j).context)
        /\ \A g, h \in Drawn("context_header") :
              g < h => AlphabeticalRank(Pass.primitives[g].text)
                          < AlphabeticalRank(Pass.primitives[h].text)
        /\ \A j, k \in Drawn("todo_description") :
              (j < k /\ HeaderAbove(j) = HeaderAbove(k)) =>
                  Pass.primitives[j].ref < Pass.primitives[k].ref

\* The same with the order the code sorts in, by code point (capitals before
\* small letters): this is what every pass does.
GroupedByCodePoint ==
    Pass.status = "ok" =>
        /\ \A j \in Drawn("todo_description") :
              HeaderAbove(j) = "@ " \o (IF TodoOf(j).context = "" THEN "No Context"
                                        ELSE TodoOf(j).context)
        /\ \A g, h \in Drawn("context_header") :
              g < h => \E a, b \in DOMAIN SortedContextNames :
                          /\ a < b
                          /\ Pass.primitives[g].text = "@ " \o SortedContextNames[a]
                          /\ Pass.primitives[h].text = "@ " \o SortedContextNames[b]
        /\ \A j, k \in Drawn("todo_description") :
              (j < k /\ HeaderAbove(j) = HeaderAbove(k)) =>
                  Pass.primitives[j].ref < Pass.primitives[k].ref

\* The detail lines drawn for a row, and the project tag a detail line
\* starts with.
DetailsOf(j) == DrawnFor("todo_detail", Pass.primitives[j].ref)
ProjectTag(todo) == IF todo.project = "" THEN "" ELSE "> " \o todo.project \o "  .  "

\* C25: a drawn todo due before the target date has one detail line, with
\* its date written out and in the overdue colour; a drawn todo due on the
\* target date has one detail line, with the due-today marker and in the
\* normal detail colour.
C25_DueMarker ==
    Pass.status = "ok" =>
        \A j \in Drawn("todo_description") :
            LET todo == TodoOf(j)
                details == {Pass.primitives[k] : k \in DetailsOf(j)}
            IN  /\ (todo.due_date # NoDate /\ todo.due_date < Pass.data.target_date) =>
                      /\ Cardinality(DetailsOf(j)) = 1
                      /\ \A p \in details :
                            /\ p.text = ProjectTag(todo) \o "! " \o ToString(todo.due_date)
                            /\ p.color = "#cc0000"
                /\ todo.due_date = Pass.data.target_date =>
                      /\ Cardinality(DetailsOf(j)) = 1
                      /\ \A p \in details :
                            /\ p.text = ProjectTag(todo) \o "Due: Today"
                            /\ p.color = "#aaaaaa"

\* A pass that draws an overdue todo and a todo due on the target date.
C25_Witness ==
    /\ Pass.status = "ok"
    /\ \E j, k \in Drawn("todo_description") :
          /\ TodoOf(j).due_date # NoDate
          /\ TodoOf(j).due_date < Pass.data.target_date
          /\ TodoOf(k).due_date = Pass.data.target_date
          /\ \E p \in DetailsOf(j) : Pass.primitives[p].color = "#cc0000"
          /\ \E p \in DetailsOf(k) : Pass.primitives[p].color = "#aaaaaa"

\* The height of the divider drawn above the billable-hours block.
DividerY == Pass.primitives[CHOOSE j \in Drawn("billable_divider") : TRUE].y

\* C26: in a pass with valid hours no hour line, hour label, event
\* rectangle, todo checkbox, todo description or todo detail line reaches
\* the divider above the billable-hours block or goes below it.
C26_AboveBillableDivider ==
    (Pass.status = "ok" /\ day_start < day_end) =>
        \A j \in Drawn("hour_line") \cup Drawn("hour_label") \cup Drawn("event")
                  \cup Drawn("todo_checkbox") \cup Drawn("todo_description")
                  \cup Drawn("todo_detail") :
            Pass.primitives[j].y > DividerY

(***************************************************************************)
(* Properties of a run of main (SpecRun).                                  *)
(***************************************************************************)
EventsStage == {"caldav", "caldav_fetch"}
TodosStage == {"tracks", "tracks_fetch"}

\* One step of a run keeps the stages in their order and apart: the events
\* stage ends in the todos stage and nowhere else, the todos stage in the
\* layout stage and nowhere else, whether the fetch failed or not; a fetch
\* that is not skipped is entered; a caught failure leaves PlannerData as it
\* was; and the layout stage calls generate on PlannerData as it stands.
StageStep ==
    /\ rpc \in EventsStage => rpc' \in EventsStage \cup {"tracks"}
    /\ rpc \in TodosStage => rpc' \in TodosStage \cup {"layout"}
    /\ rpc' \in EventsStage => rpc \in EventsStage \cup {"start"}
    /\ rpc' \in TodosStage => rpc \in EventsStage \cup TodosStage
    /\ rpc' = "layout" => rpc \in TodosStage \cup {"layout"}
    /\ (rpc = "tracks" /\ rpc' # rpc /\ ~args.skip_tracks) =>
          (rpc' = "tracks_fetch" /\ tpc' = "contexts")
    /\ failed' # failed => (data' = data /\ rpc' \in {"tracks", "layout"})
    /\ (rpc = "layout" /\ rpc' # rpc) =>
          (out[1].status = "none" /\ out'[1].status # "none" /\ out'[1].data = data)
    /\ rpc' \in {"upload", "done", "exit"} =>
          rpc \in {"start", "layout", "upload", "done", "exit"}

\* C27: in every run the events fetch, the todos fetch and the layout follow
\* each other in this order; a run in its events stage or its todos stage,
\* whether a fetch failed or not, can always take its next step, which leads
\* nowhere but on to the todos stage and to the call of generate; after a
\* failed events fetch PlannerData has no events and after a failed todos
\* fetch no todos, and generate is called on PlannerData as the fetches left
\* it.
C27_StageIsolation ==
    /\ [][StageStep]_vars
    /\ []((("caldav" \in failed) => data.events = <<>>)
          /\ (("tracks" \in failed) => data.todos = <<>>)
          /\ (out[1].status # "none" => out[1].data = data)
          /\ (rpc \in EventsStage \cup TodosStage => ENABLED NextRun)
          /\ (rpc = "layout" => out[1].status = "none"))

\* A run whose todos fetch failed after its events fetch had appended an
\* event: the page is drawn with that event and no todo.
C27_Witness ==
    /\ failed = {"tracks"}
    /\ out[1].status = "ok"
    /\ Len(out[1].data.events) = 1
    /\ out[1].data.todos = <<>>
    /\ DrawnFor("event", out[1].data.events[1].title) \cup
       DrawnFor("banner", out[1].data.events[1].title) # {}

====
